---- MODULE Spec2Model ----
(***************************************************************************)
(* CrowdPay backend: Lightning payment reconciliation.                     *)
(*                                                                         *)
(* The model follows backend/routes/contributions.py,                      *)
(* backend/routes/payments.py and backend/services/invoice_polling.py.     *)
(* Every call to the record store (supabase), to the invoice provider      *)
(* (LNbits) and every access to the in-memory polling registry is one      *)
(* atomic step of the thread that makes it; request handlers and polling   *)
(* threads interleave between those steps (Flask serves requests in        *)
(* threads, start_polling spawns a daemon thread per contribution).        *)
(*                                                                         *)
(* Amounts are satoshis.  PLATFORM_FEE_PERCENT is 2.5, written here in     *)
(* tenths of a percent; the amounts of the model are multiples of 40 so    *)
(* that amount * 2.5 / 100 is a whole number.                              *)
(***************************************************************************)
EXTENDS Integers, Sequences, FiniteSets, TLC

(* ---- bounds of the model ---- *)
MaxRequests == 3
MaxCalls == 2
TickStep == 1800

(* ---- program constants ---- *)
POLLING_INTERVAL == 30
POLLING_TIMEOUT == 3600
FEE_PERCENT_X10 == 25
MIN_CONTRIBUTION == 100

(* ---- identities ---- *)
None == "-"
ContribOrder == <<"c1", "c2">>
HashOrder == <<"h1", "h2">>
WatcherOrder == <<"w1", "w2">>
ReqOrder == <<"r1", "r2">>
Contribs == {ContribOrder[i] : i \in DOMAIN ContribOrder}
Hashes == {HashOrder[i] : i \in DOMAIN HashOrder}
Watchers == {WatcherOrder[i] : i \in DOMAIN WatcherOrder}
Reqs == {ReqOrder[i] : i \in DOMAIN ReqOrder}
Campaigns == {"k1", "k2"}
CampaignStatus == [k \in Campaigns |-> IF k = "k1" THEN "active" ELSE "completed"]
Issuable == {"h1"}
UnknownHash == "hx"
CreateAmounts == {40, 200, 1000}
Registries == {"contributions", "payments"}
Kinds == {"watcher", "webhookC", "webhookP", "status"}
Terminal == {"paid", "failed", "expired", "cancelled"}
Preimage == [h \in Hashes |-> IF h = "h1" THEN "p1" ELSE "p2"]
SwapIds == {"s1", "s2"}

VARIABLES
  (* record store: contributions and campaigns tables *)
  c_status, c_hash, c_amount, c_campaign, paid_at_writes, current_amount,
  (* contributions table: transaction_id, platform_fee, creator_amount *)
  c_txid, c_platform_fee, c_creator_amount,
  (* invoice provider: state of each invoice *)
  invoice,
  (* InvoicePollingService instances: polling_threads, stop_flags; Events *)
  polling_threads, stop_flags, ev_set,
  (* polling threads *)
  w_pc, w_cid, w_age, w_wait, w_cur,
  (* request handlers *)
  r_kind, r_pc, r_cid, r_hash, r_camp, r_amt, r_cur, r_w, nreq,
  (* the answer to the request answered last: kind, payload shape, code, body *)
  response,
  (* the last call of a signature verification function: which function,
     the payload and signature header it was given, what it returned *)
  verification,
  (* history: campaign credits made for each contribution, by path;
     contributions whose cancel request returned 200 *)
  credits, cancelled_ok,
  (* webhook_events table; contributions.status column; the payload each
     Minmo notification in handling carries; history: the updates of a
     contribution made for each swap id *)
  webhook_events, c_stage, r_payload, swap_updates

feeVars == <<c_platform_fee, c_creator_amount>>
dbVars == <<c_status, c_hash, c_amount, c_campaign, paid_at_writes, current_amount,
            c_txid, feeVars>>
regVars == <<polling_threads, stop_flags, ev_set>>
wVars == <<w_pc, w_cid, w_age, w_wait, w_cur>>
rVars == <<r_kind, r_pc, r_cid, r_hash, r_camp, r_amt, r_cur, r_w, nreq, response>>
hist == <<credits, cancelled_ok>>
minmoVars == <<webhook_events, c_stage, r_payload, swap_updates>>
vars == <<dbVars, invoice, regVars, wVars, rVars, verification, hist, minmoVars>>

(* ---- helpers ---- *)
Lowest(order, S) == order[CHOOSE i \in DOMAIN order :
                       /\ order[i] \in S
                       /\ \A j \in DOMAIN order : order[j] \in S => i <= j]

ContribByHash(h) == IF \E c \in Contribs : c_status[c] # "absent" /\ c_hash[c] = h
                    THEN CHOOSE c \in Contribs : c_status[c] # "absent" /\ c_hash[c] = h
                    ELSE None

UcaCreatorAmount(amount) == amount - (amount * FEE_PERCENT_X10) \div 1000
WebhookCreatorAmount(amount) == amount - (amount * FEE_PERCENT_X10) \div 1000
StatusCreatorAmountGross(amount) == amount
StatusCreatorAmount(amount) == amount - (amount * FEE_PERCENT_X10) \div 1000

CheckInvoiceStatus(raw) == IF raw = "paid" THEN "paid"
                           ELSE IF raw = "expired" THEN "expired" ELSE "pending"

TimedOutMillis(age) == age > POLLING_TIMEOUT * 1000
TimedOut(age) == age > POLLING_TIMEOUT

get_active_polls(reg) == {c \in Contribs : polling_threads[reg][c] # None}

Live(w) == w_pc[w] \notin {"unborn", "new", "done"}

SlotFree(r) == r_pc[r] = "idle"
NextSlot(r) == /\ nreq < MaxRequests
               /\ SlotFree(r)
               /\ r = Lowest(ReqOrder, {q \in Reqs : SlotFree(q)})

(* ---- webhook signatures ---- *)
(* A header or payload string is a sequence of tokens: " " is whitespace,
   "sha256=" the prefix, every other token one encoding of one digest.  The
   digest of a payload under a key is named by the pair; different pairs
   give different digests. *)
ADMIN_KEY == "ka"
WEBHOOK_SECRET == "ks"
hmac_new(key, payload) == key \o "/" \o payload
hexdigest(mac) == "hex(" \o mac \o ")"
b64encode(mac) == "b64(" \o mac \o ")"
PayloadOf(shape, h) == shape \o ":" \o h
NoSignature == <<>>

RECURSIVE strip(_)
strip(sig) ==
  IF sig # <<>> /\ Head(sig) = " " THEN strip(Tail(sig))
  ELSE IF sig # <<>> /\ sig[Len(sig)] = " " THEN strip(SubSeq(sig, 1, Len(sig) - 1))
  ELSE sig

(* LNbitsService.verify_webhook_signature *)
verify_webhook_signature(payload, signature) ==
  IF signature = NoSignature THEN FALSE
  ELSE signature = <<hexdigest(hmac_new(ADMIN_KEY, payload))>>

(* services/lightning.py verify_ln_signature, method hmac-sha256, secret set *)
verify_ln_signature(payload, signature) ==
  IF signature = NoSignature THEN FALSE
  ELSE LET stripped == strip(signature)
           sig == IF stripped # <<>> /\ Head(stripped) = "sha256="
                  THEN Tail(stripped) ELSE stripped
           mac == hmac_new(WEBHOOK_SECRET, payload)
       IN sig = <<hexdigest(mac)>> \/ sig = <<b64encode(mac)>>

NotVerified == [fn |-> None, payload |-> None, sig |-> NoSignature, result |-> FALSE]

(* the signature headers of the model *)
SignedPayloads == {PayloadOf("paid", "h1"), PayloadOf("unpaid", "h1")}
Keys == {ADMIN_KEY, WEBHOOK_SECRET}
FormsOf(mac) == {<<hexdigest(mac)>>, <<b64encode(mac)>>,
                 <<"sha256=", hexdigest(mac)>>, <<"sha256=", b64encode(mac)>>,
                 <<" ", hexdigest(mac)>>}
Signatures == {NoSignature, <<"junk">>}
                \cup UNION {FormsOf(hmac_new(k, p)) : k \in Keys, p \in SignedPayloads}
(* missing, invalid, valid for the paid notification of h1 *)
SignatureSamples == {NoSignature, <<"junk">>,
                     <<hexdigest(hmac_new(ADMIN_KEY, PayloadOf("paid", "h1")))>>}
Unsigned == {NoSignature}

(* ---- request-local state ---- *)
Slot(r, kind, pc, cid, hash, camp, amt, cur, w) ==
  /\ r_kind' = [r_kind EXCEPT ![r] = kind]
  /\ r_pc' = [r_pc EXCEPT ![r] = pc]
  /\ r_cid' = [r_cid EXCEPT ![r] = cid]
  /\ r_hash' = [r_hash EXCEPT ![r] = hash]
  /\ r_camp' = [r_camp EXCEPT ![r] = camp]
  /\ r_amt' = [r_amt EXCEPT ![r] = amt]
  /\ r_cur' = [r_cur EXCEPT ![r] = cur]
  /\ r_w' = [r_w EXCEPT ![r] = w]

(* the handler of kind `kind` enters at pc with these locals *)
Enter(r, kind, pc, cid, hash, camp, amt) ==
  /\ Slot(r, kind, pc, cid, hash, camp, amt, 0, None)
  /\ UNCHANGED response

(* the handler returns: the thread is free again *)
Reply(r, kind, in, code, body) ==
  /\ Slot(r, None, "idle", None, None, None, 0, 0, None)
  /\ response' = [kind |-> kind, in |-> in, code |-> code, body |-> body]

Goto(r, pc) ==
  /\ r_pc' = [r_pc EXCEPT ![r] = pc]
  /\ UNCHANGED <<r_kind, r_cid, r_hash, r_camp, r_amt, r_cur, r_w, response>>

Arrive == nreq' = nreq + 1
Same == UNCHANGED nreq

(* ---- Minmo notifications ---- *)
(* the JSON body: id, swap_id, status, metadata.contribution_id; None for
   a key the body does not carry *)
NoPayload == [id |-> None, swap_id |-> None, status |-> None, contribution_id |-> None]
MinmoStatuses == {"completed", "escrow_releasing"}
MinmoPayloads == {p \in [id : SwapIds \cup {None}, swap_id : SwapIds \cup {None},
                          status : MinmoStatuses, contribution_id : {"c1", None}] :
                    p.id = None \/ p.swap_id = None}
(* request.data, the bytes the signature is computed over *)
MinmoBody(p) == p.id \o "," \o p.swap_id \o "," \o p.status \o "," \o p.contribution_id

(* ---- initial states ---- *)
(* no webhook event recorded, no Minmo notification in handling *)
NoEvents ==
  /\ webhook_events = <<>>
  /\ c_stage = [c \in Contribs |-> None]
  /\ r_payload = [r \in Reqs |-> NoPayload]
  /\ swap_updates = [s \in SwapIds |-> 0]

(* the process after construction: empty registries, no thread, no request *)
IdleProcess ==
  /\ polling_threads = [g \in Registries |-> [c \in Contribs |-> None]]
  /\ stop_flags = [g \in Registries |-> [c \in Contribs |-> None]]
  /\ ev_set = [w \in Watchers |-> FALSE]
  /\ w_pc = [w \in Watchers |-> "unborn"]
  /\ w_cid = [w \in Watchers |-> None]
  /\ w_age = [w \in Watchers |-> 0]
  /\ w_wait = [w \in Watchers |-> 0]
  /\ w_cur = [w \in Watchers |-> 0]
  /\ r_kind = [r \in Reqs |-> None]
  /\ r_pc = [r \in Reqs |-> "idle"]
  /\ r_cid = [r \in Reqs |-> None]
  /\ r_hash = [r \in Reqs |-> None]
  /\ r_camp = [r \in Reqs |-> None]
  /\ r_amt = [r \in Reqs |-> 0]
  /\ r_cur = [r \in Reqs |-> 0]
  /\ r_w = [r \in Reqs |-> None]
  /\ response = [kind |-> None, in |-> None, code |-> 0, body |-> None]
  /\ nreq = 0
  /\ credits = [c \in Contribs |-> [k \in Kinds |-> 0]]
  /\ cancelled_ok = {}

(* a store with the campaigns and no contribution; no invoice issued *)
EmptyStore ==
  /\ c_status = [c \in Contribs |-> "absent"]
  /\ c_hash = [c \in Contribs |-> None]
  /\ c_amount = [c \in Contribs |-> 0]
  /\ c_campaign = [c \in Contribs |-> None]
  /\ c_txid = [c \in Contribs |-> None]
  /\ c_platform_fee = [c \in Contribs |-> None]
  /\ c_creator_amount = [c \in Contribs |-> None]
  /\ paid_at_writes = [c \in Contribs |-> 0]
  /\ current_amount = [k \in Campaigns |-> 0]
  /\ invoice = [h \in Hashes |-> IF h \in Issuable THEN "none" ELSE "never"]

(* a store that holds one pending contribution of 1000 sats: the rows outlive
   the process, the registries do not *)
StoreWithPending ==
  /\ c_status = [c \in Contribs |-> IF c = "c1" THEN "pending" ELSE "absent"]
  /\ c_hash = [c \in Contribs |-> IF c = "c1" THEN "h1" ELSE None]
  /\ c_amount = [c \in Contribs |-> IF c = "c1" THEN 1000 ELSE 0]
  /\ c_campaign = [c \in Contribs |-> IF c = "c1" THEN "k1" ELSE None]
  /\ c_txid = [c \in Contribs |-> None]
  /\ c_platform_fee = [c \in Contribs |-> None]
  /\ c_creator_amount = [c \in Contribs |-> None]
  /\ paid_at_writes = [c \in Contribs |-> 0]
  /\ current_amount = [k \in Campaigns |-> 0]
  /\ invoice = [h \in Hashes |-> IF h = "h1" THEN "pending" ELSE "never"]

(* a store that holds two pending contributions of one campaign *)
StoreWithTwoPending ==
  /\ c_status = [c \in Contribs |-> "pending"]
  /\ c_hash = [c \in Contribs |-> IF c = "c1" THEN "h1" ELSE "h2"]
  /\ c_amount = [c \in Contribs |-> IF c = "c1" THEN 1000 ELSE 200]
  /\ c_campaign = [c \in Contribs |-> "k1"]
  /\ c_txid = [c \in Contribs |-> None]
  /\ c_platform_fee = [c \in Contribs |-> None]
  /\ c_creator_amount = [c \in Contribs |-> None]
  /\ paid_at_writes = [c \in Contribs |-> 0]
  /\ current_amount = [k \in Campaigns |-> 0]
  /\ invoice = [h \in Hashes |-> "pending"]

Init == EmptyStore /\ IdleProcess /\ NoEvents /\ verification = NotVerified

InitTwo == StoreWithTwoPending /\ IdleProcess /\ NoEvents /\ verification = NotVerified

InitStart == StoreWithPending /\ IdleProcess /\ NoEvents /\ verification = NotVerified

(* ---- environment: time and the invoice provider ---- *)
Tick ==
  /\ \E w \in Watchers : Live(w) /\ (w_wait[w] > 0 \/ ~TimedOut(w_age[w]))
  /\ w_age' = [w \in Watchers |->
                 IF ~Live(w) THEN w_age[w]
                 ELSE IF w_age[w] + TickStep > POLLING_TIMEOUT
                      THEN POLLING_TIMEOUT + 1 ELSE w_age[w] + TickStep]
  /\ w_wait' = [w \in Watchers |->
                 IF w_wait[w] > TickStep THEN w_wait[w] - TickStep ELSE 0]
  /\ UNCHANGED <<dbVars, invoice, regVars, w_pc, w_cid, w_cur, rVars, hist>>
  /\ UNCHANGED verification
  /\ UNCHANGED minmoVars

ProviderPaid(h) ==
  /\ invoice[h] = "pending"
  /\ invoice' = [invoice EXCEPT ![h] = "paid"]
  /\ UNCHANGED <<dbVars, regVars, wVars, rVars, hist>>
  /\ UNCHANGED verification
  /\ UNCHANGED minmoVars

ProviderExpired(h) ==
  /\ invoice[h] = "pending"
  /\ invoice' = [invoice EXCEPT ![h] = "expired"]
  /\ UNCHANGED <<dbVars, regVars, wVars, rVars, hist>>
  /\ UNCHANGED verification
  /\ UNCHANGED minmoVars

(* ---- InvoicePollingService.stop_polling ---- *)
stop_polling(reg, cid) ==
  ev_set' = [w \in Watchers |->
               IF stop_flags[reg][cid] = w THEN TRUE ELSE ev_set[w]]

(* ---- POST /api/contributions: create_contribution ---- *)
CampaignAcceptsAny(k) == TRUE
CampaignAccepts(k) == CampaignStatus[k] = "active"

AmountAcceptedAny(amt) == TRUE
AmountAccepted(amt) == ~(amt < MIN_CONTRIBUTION)

CreateBegin(r, shape, k, amt) ==
  /\ NextSlot(r)
  /\ Cardinality({h \in Hashes : invoice[h] = "none"})
       > Cardinality({q \in Reqs : r_pc[q] = "cc_invoice"})
  /\ Arrive
  /\ IF shape = "none"
     THEN Reply(r, "create", shape, 400, "No data provided")
     ELSE IF ~CampaignAccepts(k)
     THEN Reply(r, "create", shape, 400, "Campaign is not active")
     ELSE IF ~AmountAccepted(amt)
     THEN Reply(r, "create", shape, 400, "Minimum contribution is 100 satoshis")
     ELSE IF shape = "invalid"
     THEN Reply(r, "create", shape, 400, "Validation error")
     ELSE Enter(r, "create", "cc_invoice", None, None, k, amt)
  /\ UNCHANGED <<dbVars, invoice, regVars, wVars, hist>>
  /\ UNCHANGED verification
  /\ UNCHANGED minmoVars

(* create_invoice raised LNbitsAPIError: the handler answers 400 *)
CreateInvoiceFailedSwallowed(r) ==
  /\ Enter(r, "create", "cc_insert", None, None, r_camp[r], r_amt[r])
  /\ UNCHANGED invoice
CreateInvoiceFailed(r) ==
  /\ Reply(r, "create", "valid", 400, "Payment processing error")
  /\ UNCHANGED invoice

CreateInvoice(r, ok) ==
  /\ r_pc[r] = "cc_invoice"
  /\ IF ok
     THEN LET h == Lowest(HashOrder, {x \in Hashes : invoice[x] = "none"}) IN
          /\ invoice' = [invoice EXCEPT ![h] = "pending"]
          /\ Enter(r, "create", "cc_insert", None, h, r_camp[r], r_amt[r])
     ELSE CreateInvoiceFailed(r)
  /\ Same
  /\ UNCHANGED <<dbVars, regVars, wVars, hist>>
  /\ UNCHANGED verification
  /\ UNCHANGED minmoVars

CreateInsertUnchecked(r, ok) ==
  /\ r_pc[r] = "cc_insert"
  /\ LET c == Lowest(ContribOrder, {x \in Contribs : c_status[x] = "absent"}) IN
     IF ok
     THEN /\ c_status' = [c_status EXCEPT ![c] = "pending"]
          /\ c_hash' = [c_hash EXCEPT ![c] = r_hash[r]]
          /\ c_amount' = [c_amount EXCEPT ![c] = r_amt[r]]
          /\ c_campaign' = [c_campaign EXCEPT ![c] = r_camp[r]]
          /\ Enter(r, "create", "sp_check", c, r_hash[r], r_camp[r], r_amt[r])
     ELSE /\ Enter(r, "create", "sp_check", c, r_hash[r], r_camp[r], r_amt[r])
          /\ UNCHANGED <<c_status, c_hash, c_amount, c_campaign>>
  /\ Same
  /\ UNCHANGED <<c_txid, feeVars, paid_at_writes, current_amount, invoice, regVars, wVars, hist>>
  /\ UNCHANGED verification
  /\ UNCHANGED minmoVars
CreateInsertFailureAcked(r, ok) ==
  /\ r_pc[r] = "cc_insert"
  /\ IF ok
     THEN LET c == Lowest(ContribOrder, {x \in Contribs : c_status[x] = "absent"}) IN
          /\ c_status' = [c_status EXCEPT ![c] = "pending"]
          /\ c_hash' = [c_hash EXCEPT ![c] = r_hash[r]]
          /\ c_amount' = [c_amount EXCEPT ![c] = r_amt[r]]
          /\ c_campaign' = [c_campaign EXCEPT ![c] = r_camp[r]]
          /\ Enter(r, "create", "sp_check", c, r_hash[r], r_camp[r], r_amt[r])
     ELSE /\ Reply(r, "create", "valid", 201, None)
          /\ UNCHANGED <<c_status, c_hash, c_amount, c_campaign>>
  /\ Same
  /\ UNCHANGED <<c_txid, feeVars, paid_at_writes, current_amount, invoice, regVars, wVars, hist>>
  /\ UNCHANGED verification
  /\ UNCHANGED minmoVars
CreateInsert(r, ok) ==
  /\ r_pc[r] = "cc_insert"
  /\ IF ok
     THEN LET c == Lowest(ContribOrder, {x \in Contribs : c_status[x] = "absent"}) IN
          /\ c_status' = [c_status EXCEPT ![c] = "pending"]
          /\ c_hash' = [c_hash EXCEPT ![c] = r_hash[r]]
          /\ c_amount' = [c_amount EXCEPT ![c] = r_amt[r]]
          /\ c_campaign' = [c_campaign EXCEPT ![c] = r_camp[r]]
          /\ Enter(r, "create", "sp_check", c, r_hash[r], r_camp[r], r_amt[r])
     ELSE /\ Reply(r, "create", "valid", 500, "Failed to create contribution")
          /\ UNCHANGED <<c_status, c_hash, c_amount, c_campaign>>
  /\ Same
  /\ UNCHANGED <<c_txid, feeVars, paid_at_writes, current_amount, invoice, regVars, wVars, hist>>
  /\ UNCHANGED verification
  /\ UNCHANGED minmoVars

(* the insert raises instead of answering without data: the handler's
   `except Exception` answers 500 *)
CreateInsertRaises(r) ==
  /\ r_pc[r] = "cc_insert"
  /\ Reply(r, "create", "valid", 500, "Internal server error")
  /\ Same
  /\ UNCHANGED <<dbVars, invoice, regVars, wVars, hist>>
  /\ UNCHANGED verification
  /\ UNCHANGED minmoVars

(* ---- InvoicePollingService.start_polling (contributions instance) ---- *)
(* a direct call start_polling(c, c's payment_hash, c's campaign) *)
StartBegin(r, c) ==
  /\ NextSlot(r)
  /\ c_status[c] # "absent"
  /\ Arrive
  /\ Enter(r, "start", "sp_check", c, c_hash[c], c_campaign[c], c_amount[c])
  /\ UNCHANGED <<dbVars, invoice, regVars, wVars, hist>>
  /\ UNCHANGED verification
  /\ UNCHANGED minmoVars

(* what the caller of start_polling answers once start_polling returns *)
Started(r) ==
  Reply(r, r_kind[r], IF r_kind[r] = "create" THEN "valid" ELSE None,
        IF r_kind[r] = "create" THEN 201 ELSE 0, None)

StartCheck(r) ==
  /\ r_pc[r] = "sp_check"
  /\ IF polling_threads["contributions"][r_cid[r]] # None
     THEN Started(r)
     ELSE Goto(r, "sp_flag")
  /\ Same
  /\ UNCHANGED <<dbVars, invoice, regVars, wVars, hist>>
  /\ UNCHANGED verification
  /\ UNCHANGED minmoVars

StartFlag(r) ==
  /\ r_pc[r] = "sp_flag"
  /\ \E x \in Watchers : w_pc[x] = "unborn"
  /\ LET w == Lowest(WatcherOrder, {x \in Watchers : w_pc[x] = "unborn"}) IN
     /\ stop_flags' = [stop_flags EXCEPT !["contributions"][r_cid[r]] = w]
     /\ w_pc' = [w_pc EXCEPT ![w] = "new"]
     /\ w_cid' = [w_cid EXCEPT ![w] = r_cid[r]]
     /\ Slot(r, r_kind[r], "sp_thread", r_cid[r], r_hash[r], r_camp[r], r_amt[r], 0, w)
  /\ Same
  /\ UNCHANGED <<dbVars, invoice, polling_threads, ev_set, w_age, w_wait, w_cur,
                 response, hist>>
  /\ UNCHANGED verification
  /\ UNCHANGED minmoVars

StartThread(r) ==
  /\ r_pc[r] = "sp_thread"
  /\ polling_threads' = [polling_threads EXCEPT !["contributions"][r_cid[r]] = r_w[r]]
  /\ w_pc' = [w_pc EXCEPT ![r_w[r]] = "w_loop"]
  /\ Started(r)
  /\ Same
  /\ UNCHANGED <<dbVars, invoice, stop_flags, ev_set, w_cid, w_age, w_wait, w_cur, hist>>
  /\ UNCHANGED verification
  /\ UNCHANGED minmoVars

(* ---- InvoicePollingService._poll_payment: the polling thread ---- *)
WStep(w, pc) ==
  /\ w_pc' = [w_pc EXCEPT ![w] = pc]
  /\ UNCHANGED <<w_cid, w_age, w_cur>>

WLoopNoTimeout(w) ==
  /\ w_pc[w] = "w_loop"
  /\ WStep(w, IF ev_set[w] THEN "w_finally" ELSE "w_check")
  /\ UNCHANGED <<dbVars, invoice, regVars, w_wait, rVars, hist>>
  /\ UNCHANGED verification
  /\ UNCHANGED minmoVars
WLoopIgnoresFlag(w) ==
  /\ w_pc[w] = "w_loop"
  /\ WStep(w, IF TimedOut(w_age[w]) THEN "w_expire" ELSE "w_check")
  /\ UNCHANGED <<dbVars, invoice, regVars, w_wait, rVars, hist>>
  /\ UNCHANGED verification
  /\ UNCHANGED minmoVars
WLoop(w) ==
  /\ w_pc[w] = "w_loop"
  /\ WStep(w, IF ev_set[w] THEN "w_finally"
              ELSE IF TimedOut(w_age[w]) THEN "w_expire" ELSE "w_check")
  /\ UNCHANGED <<dbVars, invoice, regVars, w_wait, rVars, hist>>
  /\ UNCHANGED verification
  /\ UNCHANGED minmoVars

WExpire(w) ==
  /\ w_pc[w] = "w_expire"
  /\ c_status' = [c_status EXCEPT ![w_cid[w]] = "expired"]
  /\ WStep(w, "w_finally")
  /\ UNCHANGED <<c_hash, c_amount, c_campaign, c_txid, feeVars, paid_at_writes, current_amount,
                 invoice, regVars, w_wait, rVars, hist>>
  /\ UNCHANGED verification
  /\ UNCHANGED minmoVars

(* except LNbitsAPIError: the error is logged and the loop goes on to the wait *)
WCheckGivesUp(w, err) ==
  /\ w_pc[w] = "w_check"
  /\ LET status == CheckInvoiceStatus(invoice[c_hash[w_cid[w]]]) IN
     IF err
     THEN /\ WStep(w, "w_finally")
          /\ UNCHANGED w_wait
     ELSE IF status = "pending"
     THEN /\ WStep(w, "w_wait")
          /\ w_wait' = [w_wait EXCEPT ![w] = POLLING_INTERVAL]
     ELSE /\ WStep(w, IF status = "paid" THEN "w_already" ELSE "w_mark")
          /\ UNCHANGED w_wait
  /\ UNCHANGED <<dbVars, invoice, regVars, rVars, hist>>
  /\ UNCHANGED verification
  /\ UNCHANGED minmoVars
WCheck(w, err) ==
  /\ w_pc[w] = "w_check"
  /\ LET status == CheckInvoiceStatus(invoice[c_hash[w_cid[w]]]) IN
     IF err \/ status = "pending"
     THEN /\ WStep(w, "w_wait")
          /\ w_wait' = [w_wait EXCEPT ![w] = POLLING_INTERVAL]
     ELSE /\ WStep(w, IF status = "paid" THEN "w_already" ELSE "w_mark")
          /\ UNCHANGED w_wait
  /\ UNCHANGED <<dbVars, invoice, regVars, rVars, hist>>
  /\ UNCHANGED verification
  /\ UNCHANGED minmoVars

WAlreadyNever(w) ==
  /\ w_pc[w] = "w_already"
  /\ WStep(w, "w_update")
  /\ UNCHANGED <<dbVars, invoice, regVars, w_wait, rVars, hist>>
  /\ UNCHANGED verification
  /\ UNCHANGED minmoVars
WAlready(w) ==
  /\ w_pc[w] = "w_already"
  /\ WStep(w, IF c_status[ContribByHash(c_hash[w_cid[w]])] = "paid"
              THEN "w_finally" ELSE "w_update")
  /\ UNCHANGED <<dbVars, invoice, regVars, w_wait, rVars, hist>>
  /\ UNCHANGED verification
  /\ UNCHANGED minmoVars

WUpdate(w) ==
  /\ w_pc[w] = "w_update"
  /\ LET c == ContribByHash(c_hash[w_cid[w]]) IN
     /\ c_status' = [c_status EXCEPT ![c] = "paid"]
     /\ paid_at_writes' = [paid_at_writes EXCEPT ![c] = @ + 1]
     /\ c_txid' = [c_txid EXCEPT ![c] = Preimage[c_hash[c]]]
  /\ WStep(w, "w_camp_read")
  /\ UNCHANGED <<c_hash, c_amount, c_campaign, feeVars, current_amount,
                 invoice, regVars, w_wait, rVars, hist>>
  /\ UNCHANGED verification
  /\ UNCHANGED minmoVars

WCampReadUnlessStopped(w) ==
  /\ w_pc[w] = "w_camp_read"
  /\ w_pc' = [w_pc EXCEPT ![w] = IF ev_set[w] THEN "w_finally" ELSE "w_camp_write"]
  /\ w_cur' = [w_cur EXCEPT ![w] = IF ev_set[w] THEN 0
                                   ELSE current_amount[c_campaign[w_cid[w]]]]
  /\ UNCHANGED <<dbVars, invoice, regVars, w_cid, w_age, w_wait, rVars, hist>>
  /\ UNCHANGED verification
  /\ UNCHANGED minmoVars
WCampRead(w) ==
  /\ w_pc[w] = "w_camp_read"
  /\ w_pc' = [w_pc EXCEPT ![w] = "w_camp_write"]
  /\ w_cur' = [w_cur EXCEPT ![w] = current_amount[c_campaign[w_cid[w]]]]
  /\ UNCHANGED <<dbVars, invoice, regVars, w_cid, w_age, w_wait, rVars, hist>>
  /\ UNCHANGED verification
  /\ UNCHANGED minmoVars

WCampWrite(w) ==
  /\ w_pc[w] = "w_camp_write"
  /\ current_amount' = [current_amount EXCEPT ![c_campaign[w_cid[w]]] =
                          w_cur[w] + UcaCreatorAmount(c_amount[w_cid[w]])]
  /\ credits' = [credits EXCEPT ![w_cid[w]]["watcher"] = @ + 1]
  /\ UNCHANGED cancelled_ok
  /\ w_pc' = [w_pc EXCEPT ![w] = "w_finally"]
  /\ w_cur' = [w_cur EXCEPT ![w] = 0]
  /\ UNCHANGED <<c_status, c_hash, c_amount, c_campaign, c_txid, feeVars, paid_at_writes,
                 invoice, regVars, w_cid, w_age, w_wait, rVars>>
  /\ UNCHANGED verification
  /\ UNCHANGED minmoVars

WMarkFailed(w) ==
  /\ w_pc[w] = "w_mark"
  /\ c_status' = [c_status EXCEPT ![w_cid[w]] = "failed"]
  /\ WStep(w, "w_finally")
  /\ UNCHANGED <<c_hash, c_amount, c_campaign, c_txid, feeVars, paid_at_writes, current_amount,
                 invoice, regVars, w_wait, rVars, hist>>
  /\ UNCHANGED verification
  /\ UNCHANGED minmoVars
WMark(w) ==
  /\ w_pc[w] = "w_mark"
  /\ c_status' = [c_status EXCEPT ![w_cid[w]] =
                    CheckInvoiceStatus(invoice[c_hash[w_cid[w]]])]
  /\ WStep(w, "w_finally")
  /\ UNCHANGED <<c_hash, c_amount, c_campaign, c_txid, feeVars, paid_at_writes, current_amount,
                 invoice, regVars, w_wait, rVars, hist>>
  /\ UNCHANGED verification
  /\ UNCHANGED minmoVars

WWait(w) ==
  /\ w_pc[w] = "w_wait"
  /\ ev_set[w] \/ w_wait[w] = 0
  /\ WStep(w, "w_loop")
  /\ w_wait' = [w_wait EXCEPT ![w] = 0]
  /\ UNCHANGED <<dbVars, invoice, regVars, rVars, hist>>
  /\ UNCHANGED verification
  /\ UNCHANGED minmoVars

WFinally(w) ==
  /\ w_pc[w] = "w_finally"
  /\ polling_threads' = [polling_threads EXCEPT !["contributions"][w_cid[w]] = None]
  /\ stop_flags' = [stop_flags EXCEPT !["contributions"][w_cid[w]] = None]
  /\ w_pc' = [w_pc EXCEPT ![w] = "done"]
  /\ w_age' = [w_age EXCEPT ![w] = 0]
  /\ UNCHANGED <<dbVars, invoice, ev_set, w_cid, w_wait, w_cur, rVars, hist>>
  /\ UNCHANGED verification
  /\ UNCHANGED minmoVars

(* a store call of the polling thread raises: control goes to the handler
   `except Exception` of _poll_payment; the pc keeps whether the call was
   the campaign update of _update_campaign_amount *)
StoreCalls == {"w_expire", "w_already", "w_update", "w_camp_read", "w_camp_write",
               "w_mark"}
CreditCalls == {"w_camp_write"}

WRaise(w) ==
  /\ w_pc[w] \in StoreCalls
  /\ w_pc' = [w_pc EXCEPT ![w] = IF w_pc[w] \in CreditCalls
                                 THEN "w_except_credit" ELSE "w_except"]
  /\ w_cur' = [w_cur EXCEPT ![w] = 0]
  /\ UNCHANGED <<dbVars, invoice, regVars, w_cid, w_age, w_wait, rVars, hist>>
  /\ UNCHANGED verification
  /\ UNCHANGED minmoVars

(* except Exception: _update_contribution_status_by_id(contribution_id,
   "failed"), which may raise in its turn; the finally clause runs either way *)
WExceptSkipsCleanup(w, ok) ==
  /\ w_pc[w] \in {"w_except", "w_except_credit"}
  /\ IF ok THEN c_status' = [c_status EXCEPT ![w_cid[w]] = "failed"]
     ELSE UNCHANGED c_status
  /\ WStep(w, IF ok THEN "w_finally" ELSE "done")
  /\ UNCHANGED <<c_hash, c_amount, c_campaign, c_txid, feeVars, paid_at_writes, current_amount,
                 invoice, regVars, w_wait, rVars, hist>>
  /\ UNCHANGED verification
  /\ UNCHANGED minmoVars
WExcept(w, ok) ==
  /\ w_pc[w] \in {"w_except", "w_except_credit"}
  /\ IF ok THEN c_status' = [c_status EXCEPT ![w_cid[w]] = "failed"]
     ELSE UNCHANGED c_status
  /\ WStep(w, "w_finally")
  /\ UNCHANGED <<c_hash, c_amount, c_campaign, c_txid, feeVars, paid_at_writes, current_amount,
                 invoice, regVars, w_wait, rVars, hist>>
  /\ UNCHANGED verification
  /\ UNCHANGED minmoVars

(* ---- POST /api/contributions/webhook: lnbits_webhook ---- *)
(* the signature header is verified when present; a failed verification is
   logged and the handler continues *)
Verified(payload, sig) ==
  IF sig # NoSignature
  THEN [fn |-> "lnbits", payload |-> payload, sig |-> sig,
        result |-> verify_webhook_signature(payload, sig)]
  ELSE verification

WebhookCOutcomeTrustsHash(shape, h) ==
  LET c == ContribByHash(h) IN
  IF shape \in {"none", "nohash"} THEN [code |-> 400, settle |-> FALSE]
  ELSE IF c = None THEN [code |-> 404, settle |-> FALSE]
  ELSE IF c_status[c] = "paid" THEN [code |-> 200, settle |-> FALSE]
  ELSE [code |-> 200, settle |-> TRUE]
WebhookCPayloadOutcome(shape, h) ==
  LET c == ContribByHash(h) IN
  IF shape \in {"none", "nohash"} THEN [code |-> 400, settle |-> FALSE]
  ELSE IF shape = "unpaid" THEN [code |-> 200, settle |-> FALSE]
  ELSE IF c = None THEN [code |-> 404, settle |-> FALSE]
  ELSE IF c_status[c] = "paid" THEN [code |-> 200, settle |-> FALSE]
  ELSE [code |-> 200, settle |-> TRUE]

WebhookCOutcomeRejecting(shape, h, sig) ==
  IF sig # NoSignature /\ ~verify_webhook_signature(PayloadOf(shape, h), sig)
  THEN [code |-> 401, settle |-> FALSE]
  ELSE WebhookCPayloadOutcome(shape, h)
WebhookCOutcome(shape, h, sig) == WebhookCPayloadOutcome(shape, h)

WebhookCBegin(r, shape, h, sig) ==
  /\ NextSlot(r)
  /\ Arrive
  /\ verification' = Verified(PayloadOf(shape, h), sig)
  /\ UNCHANGED minmoVars
  /\ LET c == ContribByHash(h)
         o == WebhookCOutcome(shape, h, sig) IN
     IF o.settle
     THEN Enter(r, "webhookC", "wc_update", c, h, c_campaign[c], c_amount[c])
     ELSE Reply(r, "webhookC", shape, o.code, None)
  /\ UNCHANGED <<dbVars, invoice, regVars, wVars, hist>>

WebhookCUpdate(r) ==
  /\ r_pc[r] = "wc_update"
  /\ c_status' = [c_status EXCEPT ![r_cid[r]] = "paid"]
  /\ paid_at_writes' = [paid_at_writes EXCEPT ![r_cid[r]] = @ + 1]
  /\ c_txid' = [c_txid EXCEPT ![r_cid[r]] = Preimage[r_hash[r]]]
  /\ Goto(r, "wc_camp_read")
  /\ Same
  /\ UNCHANGED <<c_hash, c_amount, c_campaign, feeVars, current_amount,
                 invoice, regVars, wVars, hist>>
  /\ UNCHANGED verification
  /\ UNCHANGED minmoVars

WebhookCCampRead(r) ==
  /\ r_pc[r] = "wc_camp_read"
  /\ Slot(r, r_kind[r], "wc_camp_write", r_cid[r], r_hash[r], r_camp[r], r_amt[r],
          current_amount[r_camp[r]], None)
  /\ Same
  /\ UNCHANGED <<dbVars, invoice, regVars, wVars, response, hist>>
  /\ UNCHANGED verification
  /\ UNCHANGED minmoVars

WebhookCCampWrite(r) ==
  /\ r_pc[r] = "wc_camp_write"
  /\ current_amount' = [current_amount EXCEPT ![r_camp[r]] =
                          r_cur[r] + WebhookCreatorAmount(r_amt[r])]
  /\ credits' = [credits EXCEPT ![r_cid[r]]["webhookC"] = @ + 1]
  /\ UNCHANGED cancelled_ok
  /\ Slot(r, r_kind[r], "wc_stop", r_cid[r], r_hash[r], None, 0, 0, None)
  /\ Same
  /\ UNCHANGED <<c_status, c_hash, c_amount, c_campaign, c_txid, feeVars, paid_at_writes,
                 invoice, regVars, wVars, response>>
  /\ UNCHANGED verification
  /\ UNCHANGED minmoVars

WebhookCStop(r) ==
  /\ r_pc[r] = "wc_stop"
  /\ stop_polling("contributions", r_cid[r])
  /\ Reply(r, "webhookC", "paid", 200, None)
  /\ Same
  /\ UNCHANGED <<dbVars, invoice, polling_threads, stop_flags, wVars, hist>>
  /\ UNCHANGED verification
  /\ UNCHANGED minmoVars

(* ---- POST /api/webhooks/lnbits: lnbits_webhook, handle_webhook_payment ---- *)
WebhookPPayloadOutcome(shape, h) ==
  LET c == ContribByHash(h) IN
  IF shape \in {"none", "nohash"} THEN [code |-> 400, settle |-> FALSE]
  ELSE IF shape = "unpaid" THEN [code |-> 200, settle |-> FALSE]
  ELSE IF c = None THEN [code |-> 200, settle |-> FALSE]
  ELSE IF c_status[c] = "paid" THEN [code |-> 200, settle |-> FALSE]
  ELSE [code |-> 200, settle |-> TRUE]

WebhookPOutcome(shape, h, sig) == WebhookPPayloadOutcome(shape, h)

WebhookPBegin(r, shape, h, sig) ==
  /\ NextSlot(r)
  /\ Arrive
  /\ verification' = Verified(PayloadOf(shape, h), sig)
  /\ UNCHANGED minmoVars
  /\ LET c == ContribByHash(h)
         o == WebhookPOutcome(shape, h, sig) IN
     IF o.settle
     THEN Enter(r, "webhookP", "wp_update", c, h, c_campaign[c], 0)
     ELSE Reply(r, "webhookP", shape, o.code, None)
  /\ UNCHANGED <<dbVars, invoice, regVars, wVars, hist>>

WebhookPUpdate(r) ==
  /\ r_pc[r] = "wp_update"
  /\ LET c == ContribByHash(r_hash[r]) IN
     /\ c_status' = [c_status EXCEPT ![c] = "paid"]
     /\ paid_at_writes' = [paid_at_writes EXCEPT ![c] = @ + 1]
  /\ Goto(r, "wp_camp_read")
  /\ Same
  /\ UNCHANGED <<c_hash, c_amount, c_campaign, c_txid, feeVars, current_amount,
                 invoice, regVars, wVars, hist>>
  /\ UNCHANGED verification
  /\ UNCHANGED minmoVars

WebhookPCampRead(r) ==
  /\ r_pc[r] = "wp_camp_read"
  /\ Slot(r, r_kind[r], "wp_camp_write", r_cid[r], r_hash[r], r_camp[r],
          c_amount[r_cid[r]], current_amount[r_camp[r]], None)
  /\ Same
  /\ UNCHANGED <<dbVars, invoice, regVars, wVars, response, hist>>
  /\ UNCHANGED verification
  /\ UNCHANGED minmoVars

WebhookPCampWrite(r) ==
  /\ r_pc[r] = "wp_camp_write"
  /\ current_amount' = [current_amount EXCEPT ![r_camp[r]] =
                          r_cur[r] + UcaCreatorAmount(r_amt[r])]
  /\ credits' = [credits EXCEPT ![r_cid[r]]["webhookP"] = @ + 1]
  /\ UNCHANGED cancelled_ok
  /\ Slot(r, r_kind[r], "wp_stop", r_cid[r], r_hash[r], None, 0, 0, None)
  /\ Same
  /\ UNCHANGED <<c_status, c_hash, c_amount, c_campaign, c_txid, feeVars, paid_at_writes,
                 invoice, regVars, wVars, response>>
  /\ UNCHANGED verification
  /\ UNCHANGED minmoVars

WebhookPStop(r) ==
  /\ r_pc[r] = "wp_stop"
  /\ stop_polling("payments", r_cid[r])
  /\ Reply(r, "webhookP", "paid", 200, None)
  /\ Same
  /\ UNCHANGED <<dbVars, invoice, polling_threads, stop_flags, wVars, hist>>
  /\ UNCHANGED verification
  /\ UNCHANGED minmoVars

(* a store call of handle_webhook_payment raises: `except Exception` logs and
   returns False, and the route answers 200 *)
WebhookPRaise(r) ==
  /\ r_pc[r] \in {"wp_update", "wp_camp_read", "wp_camp_write"}
  /\ Reply(r, "webhookP", "paid", 200, "Payment not found or already processed")
  /\ Same
  /\ UNCHANGED <<dbVars, invoice, regVars, wVars, hist>>
  /\ UNCHANGED verification
  /\ UNCHANGED minmoVars

(* ---- GET /api/contributions/<id>/status: check_contribution_status ---- *)
StatusBegin(r, c) ==
  /\ NextSlot(r)
  /\ Arrive
  /\ IF c_status[c] = "absent" THEN Reply(r, "status", None, 404, None)
     ELSE IF c_status[c] = "pending" /\ c_hash[c] # None
     THEN Enter(r, "status", "gs_check", c, c_hash[c], c_campaign[c], c_amount[c])
     ELSE Reply(r, "status", None, 200, c_status[c])
  /\ UNCHANGED <<dbVars, invoice, regVars, wVars, hist>>
  /\ UNCHANGED verification
  /\ UNCHANGED minmoVars

StatusCheck(r, err) ==
  /\ r_pc[r] = "gs_check"
  /\ IF err THEN Goto(r, "gs_error")
     ELSE IF CheckInvoiceStatus(invoice[r_hash[r]]) = "paid"
     THEN Goto(r, "gs_update")
     ELSE Reply(r, "status", None, 200, "pending")
  /\ Same
  /\ UNCHANGED <<dbVars, invoice, regVars, wVars, hist>>
  /\ UNCHANGED verification
  /\ UNCHANGED minmoVars

(* except LNbitsAPIError: the error is logged and the handler answers with
   the status it read *)
StatusCheckFailedRaises(r) ==
  /\ r_pc[r] = "gs_error"
  /\ Reply(r, "status", None, 500, None)
  /\ Same
  /\ UNCHANGED <<dbVars, invoice, regVars, wVars, hist>>
  /\ UNCHANGED verification
  /\ UNCHANGED minmoVars
StatusCheckFailed(r) ==
  /\ r_pc[r] = "gs_error"
  /\ Reply(r, "status", None, 200, "pending")
  /\ Same
  /\ UNCHANGED <<dbVars, invoice, regVars, wVars, hist>>
  /\ UNCHANGED verification
  /\ UNCHANGED minmoVars

StatusUpdate(r) ==
  /\ r_pc[r] = "gs_update"
  /\ c_status' = [c_status EXCEPT ![r_cid[r]] = "paid"]
  /\ paid_at_writes' = [paid_at_writes EXCEPT ![r_cid[r]] = @ + 1]
  /\ c_txid' = [c_txid EXCEPT ![r_cid[r]] = Preimage[r_hash[r]]]
  /\ Goto(r, "gs_camp_read")
  /\ Same
  /\ UNCHANGED <<c_hash, c_amount, c_campaign, feeVars, current_amount,
                 invoice, regVars, wVars, hist>>
  /\ UNCHANGED verification
  /\ UNCHANGED minmoVars

StatusCampRead(r) ==
  /\ r_pc[r] = "gs_camp_read"
  /\ Slot(r, r_kind[r], "gs_camp_write", r_cid[r], r_hash[r], r_camp[r], r_amt[r],
          current_amount[r_camp[r]], None)
  /\ Same
  /\ UNCHANGED <<dbVars, invoice, regVars, wVars, response, hist>>
  /\ UNCHANGED verification
  /\ UNCHANGED minmoVars

StatusCampWrite(r) ==
  /\ r_pc[r] = "gs_camp_write"
  /\ current_amount' = [current_amount EXCEPT ![r_camp[r]] =
                          r_cur[r] + StatusCreatorAmount(r_amt[r])]
  /\ credits' = [credits EXCEPT ![r_cid[r]]["status"] = @ + 1]
  /\ UNCHANGED cancelled_ok
  /\ Slot(r, r_kind[r], "gs_stop", r_cid[r], r_hash[r], None, 0, 0, None)
  /\ Same
  /\ UNCHANGED <<c_status, c_hash, c_amount, c_campaign, c_txid, feeVars, paid_at_writes,
                 invoice, regVars, wVars, response>>
  /\ UNCHANGED verification
  /\ UNCHANGED minmoVars

StatusStop(r) ==
  /\ r_pc[r] = "gs_stop"
  /\ stop_polling("contributions", r_cid[r])
  /\ Reply(r, "status", None, 200, "paid")
  /\ Same
  /\ UNCHANGED <<dbVars, invoice, polling_threads, stop_flags, wVars, hist>>
  /\ UNCHANGED verification
  /\ UNCHANGED minmoVars

(* ---- POST /api/contributions/<id>/cancel: cancel_contribution ---- *)
CancellableAlways(status) == TRUE
Cancellable(status) == status = "pending"

CancelBegin(r, c) ==
  /\ NextSlot(r)
  /\ Arrive
  /\ IF c_status[c] = "absent" THEN Reply(r, "cancel", None, 404, None)
     ELSE IF ~Cancellable(c_status[c]) THEN Reply(r, "cancel", None, 400, None)
     ELSE Enter(r, "cancel", "cn_stop", c, None, None, 0)
  /\ UNCHANGED <<dbVars, invoice, regVars, wVars, hist>>
  /\ UNCHANGED verification
  /\ UNCHANGED minmoVars

CancelStop(r) ==
  /\ r_pc[r] = "cn_stop"
  /\ stop_polling("contributions", r_cid[r])
  /\ Goto(r, "cn_update")
  /\ Same
  /\ UNCHANGED <<dbVars, invoice, polling_threads, stop_flags, wVars, hist>>
  /\ UNCHANGED verification
  /\ UNCHANGED minmoVars

CancelUpdate(r) ==
  /\ r_pc[r] = "cn_update"
  /\ c_status' = [c_status EXCEPT ![r_cid[r]] = "cancelled"]
  /\ cancelled_ok' = cancelled_ok \cup {r_cid[r]}
  /\ Reply(r, "cancel", None, 200, None)
  /\ Same
  /\ UNCHANGED <<c_hash, c_amount, c_campaign, c_txid, feeVars, paid_at_writes, current_amount,
                 invoice, regVars, wVars, credits>>
  /\ UNCHANGED verification
  /\ UNCHANGED minmoVars

(* ---- the system: every handler, every polling thread, the environment ---- *)
Shapes == {"none", "nohash", "unpaid", "paid"}
CreateShapes == {"none", "invalid", "valid"}

Environment ==
  \/ Tick
  \/ \E h \in Hashes : ProviderPaid(h)
  \/ \E h \in Hashes : ProviderExpired(h)

Creation ==
  \E r \in Reqs :
    \/ \E shape \in CreateShapes, k \in Campaigns, amt \in CreateAmounts :
         CreateBegin(r, shape, k, amt)
    \/ \E ok \in BOOLEAN : CreateInvoice(r, ok)
    \/ \E ok \in BOOLEAN : CreateInsert(r, ok)
    \/ StartCheck(r)
    \/ StartFlag(r)
    \/ StartThread(r)

Polling ==
  \E w \in Watchers :
    \/ WLoop(w)
    \/ WExpire(w)
    \/ \E err \in BOOLEAN : WCheck(w, err)
    \/ WAlready(w)
    \/ WUpdate(w)
    \/ WCampRead(w)
    \/ WCampWrite(w)
    \/ WMark(w)
    \/ WWait(w)
    \/ WFinally(w)

WebhookC ==
  \E r \in Reqs :
    \/ \E shape \in Shapes, h \in Hashes \cup {UnknownHash}, sig \in Unsigned :
         WebhookCBegin(r, shape, h, sig)
    \/ WebhookCUpdate(r)
    \/ WebhookCCampRead(r)
    \/ WebhookCCampWrite(r)
    \/ WebhookCStop(r)

WebhookP ==
  \E r \in Reqs :
    \/ \E shape \in Shapes, h \in Hashes \cup {UnknownHash}, sig \in Unsigned :
         WebhookPBegin(r, shape, h, sig)
    \/ WebhookPUpdate(r)
    \/ WebhookPCampRead(r)
    \/ WebhookPCampWrite(r)
    \/ WebhookPStop(r)

Status ==
  \E r \in Reqs :
    \/ \E c \in Contribs : StatusBegin(r, c)
    \/ \E err \in BOOLEAN : StatusCheck(r, err)
    \/ StatusCheckFailed(r)
    \/ StatusUpdate(r)
    \/ StatusCampRead(r)
    \/ StatusCampWrite(r)
    \/ StatusStop(r)

Cancel ==
  \E r \in Reqs :
    \/ \E c \in Contribs : CancelBegin(r, c)
    \/ CancelStop(r)
    \/ CancelUpdate(r)

Next == Environment \/ Creation \/ Polling \/ WebhookC \/ WebhookP \/ Status \/ Cancel

Spec == Init /\ [][Next]_vars

(* ---- start_polling called directly, on a store that holds a pending row ---- *)
StartCalls ==
  \E r \in Reqs :
    \/ \E c \in Contribs : StartBegin(r, c)
    \/ StartCheck(r)
    \/ StartFlag(r)
    \/ StartThread(r)

NextStart == Environment \/ StartCalls \/ Polling

SpecStart == InitStart /\ [][NextStart]_vars

(* ---- polling alone: the provider never settles, nobody cancels ---- *)
PollingPending ==
  \E w \in Watchers :
    \/ WLoop(w)
    \/ WExpire(w)
    \/ \E err \in BOOLEAN : WCheck(w, err)
    \/ WWait(w)
    \/ WFinally(w)

NextPoll == Tick \/ Creation \/ PollingPending

SpecPoll == /\ Init
            /\ [][NextPoll]_vars
            /\ WF_vars(Tick)
            /\ \A w \in Watchers : WF_vars(WLoop(w) \/ WExpire(w) \/ WWait(w) \/ WFinally(w))
            /\ \A w \in Watchers : WF_vars(\E err \in BOOLEAN : WCheck(w, err))

(* ---- signed notifications on a store that holds a pending row ---- *)
WebhookCSigned ==
  \E r \in Reqs :
    \/ \E shape \in Shapes, h \in Hashes \cup {UnknownHash}, sig \in SignatureSamples :
         WebhookCBegin(r, shape, h, sig)
    \/ WebhookCUpdate(r)
    \/ WebhookCCampRead(r)
    \/ WebhookCCampWrite(r)
    \/ WebhookCStop(r)

WebhookPSigned ==
  \E r \in Reqs :
    \/ \E shape \in Shapes, h \in Hashes \cup {UnknownHash}, sig \in SignatureSamples :
         WebhookPBegin(r, shape, h, sig)
    \/ WebhookPUpdate(r)
    \/ WebhookPCampRead(r)
    \/ WebhookPCampWrite(r)
    \/ WebhookPStop(r)

NextSig == WebhookCSigned \/ WebhookPSigned

SpecSig == InitStart /\ [][NextSig]_vars

(* ---- polling while every provider check raises; cancel requests ---- *)
PollingErrors ==
  \E w \in Watchers :
    \/ WLoop(w)
    \/ WExpire(w)
    \/ WCheck(w, TRUE)
    \/ WWait(w)
    \/ WFinally(w)

NextErr == Tick \/ StartCalls \/ PollingErrors \/ Cancel

SpecErr == InitStart /\ [][NextErr]_vars

(* ---- polling threads and cancel requests ---- *)
NextCancel == Environment \/ StartCalls \/ Polling \/ Cancel

SpecCancel == InitStart /\ [][NextCancel]_vars

(* ---- polling threads and notifications to /api/webhooks/lnbits ---- *)
NextSettle == Environment \/ StartCalls \/ Polling \/ WebhookP

SpecSettle == InitStart /\ [][NextSettle]_vars

(* ---- notifications at both entry points while polling threads poll an
   invoice that stays pending ---- *)
NextHooks == Tick \/ StartCalls \/ PollingPending \/ WebhookC \/ WebhookP

SpecHooks == InitStart /\ [][NextHooks]_vars

(* ---- polling threads whose store calls may raise; cancel requests ---- *)
PollingRaising ==
  \E w \in Watchers :
    \/ WRaise(w)
    \/ \E ok \in BOOLEAN : WExcept(w, ok)

WatcherStep(w) ==
  \/ WLoop(w) \/ WExpire(w) \/ (\E err \in BOOLEAN : WCheck(w, err))
  \/ WAlready(w) \/ WUpdate(w) \/ WCampRead(w) \/ WCampWrite(w) \/ WMark(w)
  \/ WWait(w) \/ WFinally(w) \/ WRaise(w) \/ (\E ok \in BOOLEAN : WExcept(w, ok))

(* at most MaxCalls calls arrive: start_polling calls and cancel requests *)
WatchCalls ==
  \E r \in Reqs :
    \/ \E c \in Contribs : nreq < MaxCalls /\ StartBegin(r, c)
    \/ StartCheck(r)
    \/ StartFlag(r)
    \/ StartThread(r)
    \/ \E c \in Contribs : nreq < MaxCalls /\ CancelBegin(r, c)
    \/ CancelStop(r)
    \/ CancelUpdate(r)

NextWatch == Environment \/ WatchCalls \/ Polling \/ PollingRaising

SpecWatch == /\ InitStart
             /\ [][NextWatch]_vars
             /\ WF_vars(Tick)
             /\ \A w \in Watchers : WF_vars(WatcherStep(w))

(* ---- settlements whose store calls may raise ---- *)
WebhookPRaising == \E r \in Reqs : WebhookPRaise(r)

NextTorn == Environment \/ StartCalls \/ Polling \/ PollingRaising
              \/ WebhookP \/ WebhookPRaising

SpecTorn == InitStart /\ [][NextTorn]_vars

(* ---- two contributions of one campaign, each notified paid while no other
   notification for it is being handled ---- *)
NotInFlight(h) == \A q \in Reqs : r_hash[q] # h

SettleEach ==
  \E r \in Reqs :
    \/ \E h \in Hashes : NotInFlight(h) /\ WebhookCBegin(r, "paid", h, NoSignature)
    \/ WebhookCUpdate(r)
    \/ WebhookCCampRead(r)
    \/ WebhookCCampWrite(r)
    \/ WebhookCStop(r)
    \/ \E h \in Hashes : NotInFlight(h) /\ WebhookPBegin(r, "paid", h, NoSignature)
    \/ WebhookPUpdate(r)
    \/ WebhookPCampRead(r)
    \/ WebhookPCampWrite(r)
    \/ WebhookPStop(r)

NextTwo == SettleEach

SpecTwo == InitTwo /\ [][NextTwo]_vars

(* ---- polling while every provider check raises, nobody cancels; the
   threads are scheduled and time passes ---- *)
ErrorStep(w) ==
  \/ WLoop(w)
  \/ WExpire(w)
  \/ WCheck(w, TRUE)
  \/ WWait(w)
  \/ WFinally(w)

NextDown == Tick \/ StartCalls \/ (\E w \in Watchers : ErrorStep(w))

SpecDown == /\ InitStart
            /\ [][NextDown]_vars
            /\ WF_vars(Tick)
            /\ \A w \in Watchers : WF_vars(ErrorStep(w))

(* ---- the two verification functions applied to every payload and header ---- *)
InitVerify ==
  /\ EmptyStore
  /\ IdleProcess
  /\ NoEvents
  /\ \E p \in SignedPayloads, sg \in Signatures :
       verification = [fn |-> None, payload |-> p, sig |-> sg, result |-> FALSE]

ApplyLnbits ==
  /\ verification.fn # "lnbits"
  /\ verification' = [verification EXCEPT
                        !.fn = "lnbits",
                        !.result = verify_webhook_signature(verification.payload,
                                                            verification.sig)]
  /\ UNCHANGED <<dbVars, invoice, regVars, wVars, rVars, hist>>
  /\ UNCHANGED minmoVars

ApplyLightning ==
  /\ verification.fn # "lightning"
  /\ verification' = [verification EXCEPT
                        !.fn = "lightning",
                        !.result = verify_ln_signature(verification.payload,
                                                       verification.sig)]
  /\ UNCHANGED <<dbVars, invoice, regVars, wVars, rVars, hist>>
  /\ UNCHANGED minmoVars

NextVerify == ApplyLnbits \/ ApplyLightning

SpecVerify == InitVerify /\ [][NextVerify]_vars

(***************************************************************************)
(* Properties                                                              *)
(***************************************************************************)
TotalCredits(c) == credits[c]["watcher"] + credits[c]["webhookC"]
                     + credits[c]["webhookP"] + credits[c]["status"]
WebhookCredits(c) == credits[c]["webhookC"] + credits[c]["webhookP"]

(* C1: payment_status moves only pending -> paid, failed, expired or
   cancelled (after the insert that creates the row as pending); a terminal
   status is never changed and pending is never re-entered. *)
C1_StatusEdges ==
  [][\A c \in Contribs :
       c_status'[c] # c_status[c] =>
         \/ c_status[c] = "absent" /\ c_status'[c] = "pending"
         \/ c_status[c] = "pending" /\ c_status'[c] \in Terminal]_vars

(* C2: two deliveries of a paid webhook notification for one contribution
   credit the campaign once: the webhook handlers write at most one campaign
   credit per contribution. *)
C2_WebhookSettlesOnce ==
  \A c \in Contribs : WebhookCredits(c) <= 1

(* C3: when a paid webhook and a polling thread that observes paid race on
   one contribution, only one of them performs the settlement: never both a
   polling-thread credit and a webhook credit for the same contribution. *)
C3_RaceOneSettles ==
  \A c \in Contribs : ~(credits[c]["watcher"] >= 1 /\ WebhookCredits(c) >= 1)

(* C4: once cancel has returned 200 for a contribution, its polling thread
   is not listed in the registry, and no later step marks the contribution
   paid or credits its campaign for it. *)
C4_CancelIsFinal ==
  [][\A c \in cancelled_ok :
       /\ c \notin get_active_polls("contributions")
       /\ c_status'[c] # "paid"
       /\ credits'[c] = credits[c]]_vars

(* C5: at most one polling thread is live for a contribution id. *)
C5_OneWatcherPerId ==
  \A c \in Contribs : Cardinality({w \in Watchers : Live(w) /\ w_cid[w] = c}) <= 1

(* C6: a campaign's current_amount never decreases and is never negative. *)
C6_AmountMonotone ==
  [][\A k \in Campaigns :
       current_amount'[k] >= current_amount[k] /\ current_amount'[k] >= 0]_vars

(* C7: a polling thread whose provider keeps answering pending (or failing)
   eventually ends with its contribution expired and its id no longer listed
   by get_active_polls. *)
C7_TimeoutExpires ==
  \A w \in Watchers :
    Live(w) ~> /\ w_pc[w] = "done"
               /\ c_status[w_cid[w]] = "expired"
               /\ w_cid[w] \notin get_active_polls("contributions")

C7_Witness ==
  \E w \in Watchers : /\ w_pc[w] = "done"
                      /\ c_status[w_cid[w]] = "expired"
                      /\ w_cid[w] \notin get_active_polls("contributions")

(* C8: every settlement path credits amount - amount * 2.5 / 100, so that
   fee and credit add up to the amount and 1000 * credit = 975 * amount: a
   contribution of 1000 sats credits 975 and leaves a fee of 25, and whatever
   paths credited, current_amount is a sum of such credits. *)
RECURSIVE ScaledCreditSums(_, _)
ScaledCreditSums(k, i) ==
  IF i = 0 THEN {0}
  ELSE LET c == ContribOrder[i] IN
       IF c_status[c] = "absent" \/ c_campaign[c] # k THEN ScaledCreditSums(k, i - 1)
       ELSE {s + j * 975 * c_amount[c] :
               s \in ScaledCreditSums(k, i - 1), j \in 0..TotalCredits(c)}

C8_FeeSplit ==
  /\ \A k \in Campaigns :
       1000 * current_amount[k] \in ScaledCreditSums(k, Len(ContribOrder))
  /\ \A c \in Contribs :
       (c_amount[c] = 1000 /\ TotalCredits(c) = 1
          /\ \A d \in Contribs \ {c} : TotalCredits(d) = 0)
       => (current_amount[c_campaign[c]] = 975
             /\ c_amount[c] - current_amount[c_campaign[c]] = 25)

C8_Witness ==
  \E c \in Contribs : /\ c_amount[c] = 1000
                      /\ credits[c]["status"] = 1
                      /\ TotalCredits(c) = 1
                      /\ current_amount["k1"] = 975

(* C9: when a webhook handler that settled a contribution finishes, the
   stop flag of the contribution's live polling thread is set, at either
   webhook entry point. *)
C9_WebhookStopsWatcher ==
  [][\A r \in Reqs :
       (r_pc[r] \in {"wc_stop", "wp_stop"} /\ r_pc'[r] = "idle") =>
         \A w \in Watchers : (Live(w) /\ w_cid[w] = r_cid[r]) => ev_set'[w]]_vars

(* C10: a webhook request is answered 200 whenever its payload is present and
   carries a payment_hash, and 400 otherwise. *)
C10_WebhookAck ==
  response.kind \in {"webhookC", "webhookP"} =>
    response.code = (IF response.in \in {"none", "nohash"} THEN 400 ELSE 200)

(* C11: when the provider's create_invoice call fails inside
   create_contribution (the handler leaves the invoice step and no invoice
   was issued), the request is answered 400 and that step persists no
   contribution, registers no polling thread and changes no campaign. *)
C11_InvoiceFailureAborts ==
  [][\A r \in Reqs :
       (r_pc[r] = "cc_invoice" /\ r_pc'[r] # "cc_invoice" /\ invoice' = invoice) =>
         /\ r_pc'[r] = "idle"
         /\ response'.kind = "create" /\ response'.code = 400
         /\ UNCHANGED <<dbVars, regVars, wVars>>]_vars

C11_Witness ==
  /\ response.kind = "create" /\ response.body = "Payment processing error"
  /\ \A c \in Contribs : c_status[c] = "absent"
  /\ \A w \in Watchers : w_pc[w] = "unborn"
  /\ \A k \in Campaigns : current_amount[k] = 0

(* C12: a create request on a campaign that is not active is answered 400 in
   the step that reads the campaign and changes nothing; every create request
   that goes on to the provider, and every persisted contribution, is on an
   active campaign. *)
C12_OnlyActiveCampaigns ==
  [][/\ (nreq' = nreq + 1 /\ r_pc' = r_pc /\ response'.kind = "create"
           /\ response'.body = "Campaign is not active") =>
          (response'.code = 400 /\ UNCHANGED <<dbVars, invoice, regVars, wVars>>)
     /\ \A r \in Reqs : r_kind'[r] = "create" => CampaignStatus[r_camp'[r]] = "active"
     /\ \A c \in Contribs :
          c_status'[c] # "absent" => CampaignStatus[c_campaign'[c]] = "active"]_vars

C12_Witness ==
  /\ response.kind = "create" /\ response.body = "Campaign is not active"
  /\ \E r \in Reqs : r_kind[r] = "create" /\ r_pc[r] = "cc_insert"
  /\ \A c \in Contribs : c_status[c] = "absent"

(* C20: a create request rejected for its input (no body, amount below 100
   satoshis, a model validation error) is answered 400 on arrival and
   changes neither the store, the provider's invoices nor the registry; no
   request with an amount below the minimum goes on to the provider and no
   contribution below the minimum is persisted. *)
C20_ValidationBeforeEffects ==
  [][/\ (nreq' = nreq + 1 /\ r_pc' = r_pc /\ response'.kind = "create") =>
          /\ response'.code = 400
          /\ response'.in \in {"none", "invalid"} =>
               response'.body \in {"No data provided", "Campaign is not active",
                                   "Minimum contribution is 100 satoshis",
                                   "Validation error"}
          /\ UNCHANGED <<dbVars, invoice, regVars, wVars>>
     /\ \A r \in Reqs : r_kind'[r] = "create" => ~(r_amt'[r] < MIN_CONTRIBUTION)
     /\ \A c \in Contribs :
          c_status'[c] # "absent" => ~(c_amount'[c] < MIN_CONTRIBUTION)]_vars

C20_Witness ==
  /\ response.kind = "create" /\ response.code = 400
  /\ response.body \in {"Validation error", "Minimum contribution is 100 satoshis"}
  /\ \A c \in Contribs : c_status[c] = "absent"
  /\ \A h \in Hashes : invoice[h] # "pending"
  /\ \A w \in Watchers : w_pc[w] = "unborn"

(* C13: a contribution whose stored status is paid holds a paid_at value, a
   transaction_id equal to the provider's proof for its invoice, and stored
   platform_fee and creator_amount values that add up to its amount. *)
C13_SettledRecord ==
  \A c \in Contribs :
    c_status[c] = "paid" =>
      /\ paid_at_writes[c] >= 1
      /\ c_txid[c] = Preimage[c_hash[c]]
      /\ c_platform_fee[c] # None
      /\ c_creator_amount[c] # None
      /\ c_platform_fee[c] + c_creator_amount[c] = c_amount[c]

(* C14: paid_at is written at most once for each contribution. *)
C14_PaidAtOnce ==
  \A c \in Contribs : paid_at_writes[c] <= 1

(* C17: a settlement made by get_status and a settlement made by a polling
   thread or a webhook never both credit the campaign for the same
   contribution. *)
C17_StatusGuard ==
  \A c \in Contribs :
    ~(credits[c]["status"] >= 1 /\ credits[c]["watcher"] + WebhookCredits(c) >= 1)

(* C15: a cancel request goes past its status test only when the stored
   status it read is pending; otherwise it is answered with an error in that
   step and changes neither the store, the provider nor the registry.  A
   cancel that went past the test sets the stop flag of the contribution's
   live polling thread and, when it returns, has written status cancelled
   and answers 200. *)
C15_CancelOnlyPending ==
  [][/\ (nreq' = nreq + 1 /\ r_pc' = r_pc /\ response'.kind = "cancel") =>
          (response'.code \in {400, 404}
             /\ UNCHANGED <<dbVars, invoice, regVars, wVars>>)
     /\ \A r \in Reqs :
          /\ (r_kind'[r] = "cancel" /\ r_kind[r] # "cancel") =>
               c_status[r_cid'[r]] = "pending"
          /\ (r_pc[r] = "cn_stop" /\ r_pc'[r] # "cn_stop") =>
               \A w \in Watchers : (Live(w) /\ w_cid[w] = r_cid[r]) => ev_set'[w]
          /\ (r_pc[r] = "cn_update" /\ r_pc'[r] # "cn_update") =>
               (c_status'[r_cid[r]] = "cancelled"
                  /\ response'.kind = "cancel" /\ response'.code = 200)]_vars

C15_Witness ==
  /\ response.kind = "cancel" /\ response.code = 400
  /\ \E c \in cancelled_ok : c_status[c] = "cancelled"
  /\ \E w \in Watchers : ev_set[w]

(* C16: when the provider check made by get_status on a pending
   contribution raises a provider error, the handler answers 200 with the
   status it read from the store (pending), and neither the failing check
   nor the answer changes the store, the provider's invoices or the
   registry. *)
C16_StatusSurvivesProviderError ==
  [][\A r \in Reqs :
       /\ (r_pc[r] = "gs_check" /\ r_pc'[r] = "gs_error") =>
            UNCHANGED <<dbVars, invoice, regVars, wVars>>
       /\ (r_pc[r] = "gs_error" /\ r_pc'[r] # "gs_error") =>
            /\ response' = [kind |-> "status", in |-> None, code |-> 200,
                            body |-> "pending"]
            /\ UNCHANGED <<dbVars, invoice, regVars, wVars>>]_vars

C16_Witness ==
  \E r \in Reqs : /\ r_pc[r] = "gs_error"
                  /\ c_status[r_cid[r]] = "pending"
                  /\ invoice[r_hash[r]] = "paid"

(* C18: a verification function returns true exactly for the hex digest and
   the base64 digest of the payload under its secret, each with or without
   the "sha256=" prefix, and false for every other header. *)
AcceptedSignatures(key, payload) ==
  LET mac == hmac_new(key, payload) IN
  {<<hexdigest(mac)>>, <<b64encode(mac)>>,
   <<"sha256=", hexdigest(mac)>>, <<"sha256=", b64encode(mac)>>}

C18_SignatureForms ==
  verification.fn # None =>
    verification.result =
      (verification.sig \in
         AcceptedSignatures(IF verification.fn = "lnbits" THEN ADMIN_KEY
                            ELSE WEBHOOK_SECRET,
                            verification.payload))

(* C19: what an LNbits webhook entry point answers, and whether it goes on
   to settle, does not depend on the signature header: in every reachable
   state any two headers give the same outcome for the same payload. *)
C19_SignatureIgnored ==
  \A shape \in Shapes, h \in Hashes \cup {UnknownHash} :
    \A s1, s2 \in SignatureSamples :
      /\ WebhookCOutcome(shape, h, s1) = WebhookCOutcome(shape, h, s2)
      /\ WebhookPOutcome(shape, h, s1) = WebhookPOutcome(shape, h, s2)

C19_Witness ==
  /\ verification.fn = "lnbits" /\ ~verification.result
  /\ verification.payload = PayloadOf("paid", "h1")
  /\ nreq = 1
  /\ \E r \in Reqs : r_pc[r] \in {"wc_update", "wp_update"} /\ r_hash[r] = "h1"

(* C21: when a polling thread's provider check raises, that iteration writes
   nothing to the store, leaves the registry as it is and goes to the wait
   of POLLING_INTERVAL seconds, which ends only when the interval has passed
   or the stop flag is set.  A polling thread whose provider checks all
   raise ends only through the timeout. *)
C21_ErrorIteration ==
  \A w \in Watchers :
    /\ (w_pc[w] = "w_check" /\ w_pc'[w] # "w_check") =>
         /\ UNCHANGED <<dbVars, invoice, regVars>>
         /\ w_pc'[w] = "w_wait" /\ w_wait'[w] = POLLING_INTERVAL
    /\ (w_pc[w] = "w_wait" /\ w_pc'[w] # "w_wait") =>
         /\ w_pc'[w] = "w_loop" /\ (w_wait[w] = 0 \/ ev_set[w])
         /\ UNCHANGED <<dbVars, invoice, regVars>>
    /\ (w_pc[w] = "w_loop" /\ w_pc'[w] # "w_loop"
          /\ ~ev_set[w] /\ ~TimedOut(w_age[w])) => w_pc'[w] = "w_check"

C21_OnlyTimeoutEnds ==
  [][/\ C21_ErrorIteration
     /\ \A w \in Watchers :
          (w_pc[w] # "w_finally" /\ w_pc'[w] = "w_finally") =>
            (w_pc[w] = "w_expire" /\ TimedOut(w_age[w]))]_vars

(* C21 as amended: ... ends only through the timeout or its stop flag. *)
C21_TimeoutOrStopEnds ==
  [][/\ C21_ErrorIteration
     /\ \A w \in Watchers :
          (w_pc[w] # "w_finally" /\ w_pc'[w] = "w_finally") =>
            \/ w_pc[w] = "w_expire" /\ TimedOut(w_age[w])
            \/ w_pc[w] = "w_loop" /\ ev_set[w]]_vars

C21_Witness ==
  \E w \in Watchers :
    /\ w_pc[w] = "w_wait" /\ w_wait[w] = POLLING_INTERVAL /\ w_age[w] > 0
    /\ c_status[w_cid[w]] = "pending"
    /\ w_cid[w] \in get_active_polls("contributions")
    /\ \E v \in Watchers : w_pc[v] = "done" /\ ev_set[v]

(* C22: a polling thread that finds its stop flag set at the loop test it
   makes after the interval wait goes to its cleanup and ends: it does not
   reach the provider check again, and neither that step nor the cleanup
   writes to a contribution or a campaign. *)
C22_StopFlagStops ==
  [][\A w \in Watchers :
       /\ (w_pc[w] = "w_wait" /\ w_pc'[w] # "w_wait") =>
            (w_pc'[w] = "w_loop" /\ UNCHANGED <<dbVars, invoice>>)
       /\ (w_pc[w] = "w_loop" /\ ev_set[w] /\ w_pc'[w] # "w_loop") =>
            (w_pc'[w] = "w_finally" /\ UNCHANGED <<dbVars, invoice>>)
       /\ (w_pc[w] = "w_finally" /\ w_pc'[w] # "w_finally") =>
            (w_pc'[w] = "done" /\ UNCHANGED <<dbVars, invoice>>)
       /\ w_pc[w] = "done" => w_pc'[w] = "done"]_vars

C22_Witness ==
  \E w \in Watchers :
    /\ w_pc[w] = "w_wait" /\ w_wait[w] = POLLING_INTERVAL /\ ev_set[w]
    /\ invoice[c_hash[w_cid[w]]] = "paid"
    /\ c_status[w_cid[w]] = "cancelled"
    /\ TotalCredits(w_cid[w]) = 0

(* C28: a polling thread that has written paid goes on to read and write the
   campaign whether or not its stop flag is set: after the contribution
   update its next step is the campaign read, then the campaign write, which
   credits the campaign for the contribution. *)
C28_SettlementNotAbortable ==
  [][\A w \in Watchers :
       /\ (w_pc[w] = "w_update" /\ w_pc'[w] # "w_update") =>
            (w_pc'[w] = "w_camp_read" /\ c_status'[w_cid[w]] = "paid")
       /\ (w_pc[w] = "w_camp_read" /\ w_pc'[w] # "w_camp_read") =>
            w_pc'[w] = "w_camp_write"
       /\ (w_pc[w] = "w_camp_write" /\ w_pc'[w] # "w_camp_write") =>
            /\ credits'[w_cid[w]]["watcher"] = credits[w_cid[w]]["watcher"] + 1
            /\ current_amount'[c_campaign[w_cid[w]]] =
                 w_cur[w] + UcaCreatorAmount(c_amount[w_cid[w]])]_vars

C28_Witness ==
  \E w \in Watchers :
    /\ w_pc[w] = "w_camp_write" /\ ev_set[w]
    /\ c_status[w_cid[w]] = "paid"
    /\ TotalCredits(w_cid[w]) = 0

(* C23: every started polling thread eventually ends, and the step that ends
   it leaves no entry for its contribution id in polling_threads and
   stop_flags, whether it ends after a settlement, on finding the
   contribution paid, on a provider-reported expiry, on the timeout, on its
   stop flag, or on an exception of a store call (also when recording
   failed raises in its turn). *)
C23_WatcherCleansUp ==
  /\ \A w \in Watchers : Live(w) ~> w_pc[w] = "done"
  /\ [][\A w \in Watchers :
          (w_pc[w] # "done" /\ w_pc'[w] = "done") =>
            /\ w_pc[w] = "w_finally"
            /\ w_cid[w] \notin {c \in Contribs :
                                   polling_threads'["contributions"][c] # None}
            /\ stop_flags'["contributions"][w_cid[w]] = None]_vars

C23_Witness ==
  /\ \E w \in Watchers : w_pc[w] = "done" /\ c_status[w_cid[w]] = "failed"
  /\ \A w \in Watchers : w_pc[w] = "done"
  /\ get_active_polls("contributions") = {}

(* C24: when stop_polling(id) returns, an entry that existed for id has its
   stop flag set and id is no longer listed by get_active_polls; with no
   entry for id the call changes nothing. *)
C24_StopRemovesEntry ==
  [][\A r \in Reqs :
       (r_pc[r] = "cn_stop" /\ r_pc'[r] # "cn_stop") =>
         IF stop_flags["contributions"][r_cid[r]] # None
         THEN /\ ev_set'[stop_flags["contributions"][r_cid[r]]]
              /\ r_cid[r] \notin {c \in Contribs :
                                     polling_threads'["contributions"][c] # None}
         ELSE UNCHANGED <<regVars, dbVars, wVars>>]_vars

(* C25: a notification with a payment_hash whose paid flag is false or absent
   is never settled: it is answered 200 on arrival, and that step changes no
   contribution, no campaign, no invoice, no registry entry and no polling
   thread. *)
C25_UnpaidIgnored ==
  /\ [](\A h \in Hashes \cup {UnknownHash}, sig \in Unsigned :
          /\ WebhookCOutcome("unpaid", h, sig) = [code |-> 200, settle |-> FALSE]
          /\ WebhookPOutcome("unpaid", h, sig) = [code |-> 200, settle |-> FALSE])
  /\ [][(nreq' = nreq + 1 /\ r_pc' = r_pc /\ response'.in = "unpaid") =>
          /\ response'.kind \in {"webhookC", "webhookP"}
          /\ response'.code = 200
          /\ UNCHANGED <<dbVars, invoice, regVars, wVars, hist>>]_vars

C25_Witness ==
  /\ response.kind \in {"webhookC", "webhookP"}
  /\ response.in = "unpaid" /\ response.code = 200
  /\ \E w \in Watchers : /\ Live(w)
                          /\ w_cid[w] \in get_active_polls("contributions")
                          /\ c_status[w_cid[w]] = "pending"

(* C26: a paid notification for a contribution whose stored status is paid
   is not settled again: it is answered on arrival and that step writes
   nothing; a polling thread that sees the provider report paid and reads the
   stored status as paid goes to its cleanup and ends, without a write to the
   contribution or a campaign credit. *)
C26_AlreadyPaidNoOp ==
  /\ [](\A h \in Hashes, sig \in Unsigned :
          (ContribByHash(h) # None /\ c_status[ContribByHash(h)] = "paid") =>
            /\ ~WebhookPOutcome("paid", h, sig).settle
            /\ ~WebhookCOutcome("paid", h, sig).settle)
  /\ [][/\ (nreq' = nreq + 1 /\ response'.kind = "webhookP" /\ r_pc' = r_pc) =>
            UNCHANGED <<dbVars, invoice, regVars, wVars, hist>>
        /\ \A w \in Watchers :
             /\ (w_pc[w] = "w_already" /\ w_pc'[w] # "w_already"
                  /\ c_status[ContribByHash(c_hash[w_cid[w]])] = "paid") =>
                  (w_pc'[w] = "w_finally" /\ UNCHANGED <<dbVars, hist>>)
             /\ (w_pc[w] = "w_finally" /\ w_pc'[w] # "w_finally") =>
                  (w_pc'[w] = "done" /\ UNCHANGED <<dbVars, hist>>)]_vars

C26_Witness ==
  /\ \E w \in Watchers :
       /\ w_pc[w] = "w_finally" /\ ~ev_set[w] /\ ~TimedOut(w_age[w])
       /\ invoice[c_hash[w_cid[w]]] = "paid"
       /\ c_status[w_cid[w]] = "paid"
       /\ credits[w_cid[w]]["watcher"] = 0
       /\ credits[w_cid[w]]["webhookP"] = 1
  /\ response.kind = "webhookP" /\ response.in = "paid" /\ nreq = 3

(* C27: a polling thread whose provider check answers expired, cancelled or
   failed writes that status to its contribution, changes no campaign amount
   and goes to its cleanup. *)
C27_UnpaidTerminalMarks ==
  [][\A w \in Watchers :
       /\ (w_pc[w] = "w_check" /\ w_pc'[w] \notin {"w_check", "w_wait"}
            /\ CheckInvoiceStatus(invoice[c_hash[w_cid[w]]]) # "paid") =>
            w_pc'[w] = "w_mark"
       /\ (w_pc[w] = "w_mark" /\ w_pc'[w] # "w_mark") =>
            /\ CheckInvoiceStatus(invoice[c_hash[w_cid[w]]])
                 \in {"expired", "cancelled", "failed"}
            /\ c_status'[w_cid[w]] = CheckInvoiceStatus(invoice[c_hash[w_cid[w]]])
            /\ current_amount' = current_amount
            /\ credits' = credits
            /\ w_pc'[w] = "w_finally"]_vars

C27_Witness ==
  \E w \in Watchers :
    /\ w_pc[w] = "w_finally" /\ ~ev_set[w] /\ ~TimedOut(w_age[w])
    /\ invoice[c_hash[w_cid[w]]] = "expired"
    /\ c_status[w_cid[w]] = "expired"
    /\ current_amount[c_campaign[w_cid[w]]] = 0

(* C29: when the campaign update of a settlement raises after the
   contribution was marked paid, the failure is handled without a further
   write to the store: the contribution keeps its status and the campaign
   its current_amount. *)
C29_TornStateLeft ==
  [][/\ \A w \in Watchers :
          (w_pc[w] = "w_except_credit" /\ w_pc'[w] # "w_except_credit") =>
            UNCHANGED dbVars
     /\ \A r \in Reqs :
          (r_pc[r] = "wp_camp_write" /\ r_pc'[r] = "idle") => UNCHANGED dbVars]_vars

(* C30: create_contribution issues the invoice, then persists the
   contribution as pending with the invoice's payment_hash, then calls
   start_polling: a request at the insert holds an issued invoice, a request
   in start_polling holds the id of a persisted contribution with that
   payment_hash, a contribution appears as pending, and every id listed by
   get_active_polls is the id of a persisted contribution with an issued
   invoice. *)
C30_CreateOrder ==
  /\ [](/\ \A r \in Reqs :
             /\ r_pc[r] = "cc_insert" =>
                  (r_hash[r] \in Hashes /\ invoice[r_hash[r]] \notin {"none", "never"})
             /\ r_pc[r] \in {"sp_check", "sp_flag", "sp_thread"} =>
                  /\ c_status[r_cid[r]] # "absent"
                  /\ c_hash[r_cid[r]] = r_hash[r]
         /\ \A c \in Contribs :
              (polling_threads["contributions"][c] # None
                 \/ stop_flags["contributions"][c] # None) =>
                /\ c_status[c] # "absent"
                /\ c_hash[c] \in Hashes
                /\ invoice[c_hash[c]] \notin {"none", "never"})
  /\ [][\A c \in Contribs :
          (c_status[c] = "absent" /\ c_status'[c] # "absent") =>
            /\ c_status'[c] = "pending"
            /\ \E r \in Reqs : r_pc[r] = "cc_insert" /\ c_hash'[c] = r_hash[r]
            /\ UNCHANGED regVars]_vars

C30_Witness ==
  \E c \in get_active_polls("contributions") :
    /\ c_status[c] = "pending"
    /\ invoice[c_hash[c]] = "pending"
    /\ response.kind = "create" /\ response.code = 201

(* C31: whenever no settlement is in progress, each campaign's
   current_amount is its initial value (0) plus the creator amounts of its
   paid contributions; two contributions of one campaign settled
   concurrently are both reflected. *)
RECURSIVE PaidCreatorSum(_, _)
PaidCreatorSum(k, i) ==
  IF i = 0 THEN 0
  ELSE LET c == ContribOrder[i] IN
       PaidCreatorSum(k, i - 1)
         + (IF c_status[c] = "paid" /\ c_campaign[c] = k
            THEN c_amount[c] - (c_amount[c] * FEE_PERCENT_X10) \div 1000 ELSE 0)

C31_AmountIsSumOfPaid ==
  ((\A r \in Reqs : r_pc[r] = "idle") /\ (\A w \in Watchers : ~Live(w))) =>
    \A k \in Campaigns : current_amount[k] = PaidCreatorSum(k, Len(ContribOrder))

(* C32: a polling thread whose provider check raises on every poll still
   ends: it writes expired only once its age exceeds POLLING_TIMEOUT, and it
   eventually has ended with its contribution expired and no registry entry
   for its id. *)
C32_FailingProviderTerminates ==
  /\ \A w \in Watchers :
       Live(w) ~> /\ w_pc[w] = "done"
                  /\ c_status[w_cid[w]] = "expired"
                  /\ polling_threads["contributions"][w_cid[w]] = None
                  /\ stop_flags["contributions"][w_cid[w]] = None
  /\ [][\A w \in Watchers :
          /\ (w_pc[w] # "w_expire" /\ w_pc'[w] = "w_expire") => w_age[w] > POLLING_TIMEOUT
          /\ (w_pc[w] = "w_expire" /\ w_pc'[w] # "w_expire") =>
               (c_status'[w_cid[w]] = "expired" /\ w_pc'[w] = "w_finally")
          /\ (w_pc[w] = "w_check" /\ w_pc'[w] # "w_check") => w_pc'[w] = "w_wait"]_vars

C32_Witness ==
  /\ \E w \in Watchers : /\ w_pc[w] = "w_wait" /\ TimedOut(w_age[w])
                          /\ w_cid[w] \in get_active_polls("contributions")
  /\ \E v \in Watchers : w_pc[v] = "done" /\ c_status[w_cid[v]] = "expired"
  /\ invoice["h1"] = "pending"

(* ---- create_contribution with an insert that may answer empty or raise ---- *)
NextCreate == Creation \/ (\E r \in Reqs : CreateInsertRaises(r)) \/ Tick \/ PollingPending

SpecCreate == Init /\ [][NextCreate]_vars

(* C33: when the insert of create_contribution does not persist a row
   after the invoice was issued, the request is answered 500 and the step
   leaves the store, both registries and every polling thread untouched;
   no request inside start_polling and no polling thread ever holds the id
   of a contribution that is not in the store. *)
C33_FailedInsertNoWatcher ==
  /\ [](/\ \A w \in Watchers : w_pc[w] # "unborn" => c_status[w_cid[w]] # "absent"
         /\ \A r \in Reqs : r_pc[r] \in {"sp_check", "sp_flag", "sp_thread"} =>
                               c_status[r_cid[r]] # "absent"
         /\ \A c \in Contribs :
              (polling_threads["contributions"][c] # None
                 \/ stop_flags["contributions"][c] # None) => c_status[c] # "absent")
  /\ [][\A r \in Reqs :
          (r_pc[r] = "cc_insert" /\ r_pc'[r] # "cc_insert" /\ UNCHANGED c_status) =>
            /\ r_pc'[r] = "idle"
            /\ response'.kind = "create" /\ response'.code = 500
            /\ UNCHANGED <<dbVars, invoice, regVars, wVars>>]_vars

C33_Witness ==
  /\ response.kind = "create" /\ response.code = 500
  /\ response.body = "Failed to create contribution"
  /\ invoice["h1"] = "pending"
  /\ \A c \in Contribs : c_status[c] = "absent"
  /\ \A w \in Watchers : w_pc[w] = "unborn"
  /\ get_active_polls("contributions") = {}

(***************************************************************************)
(* routes/webhooks.py minmo_webhook                                        *)
(***************************************************************************)
MINMO_WEBHOOK_SECRET == "km"

(* services/minmo.py verify_minmo_signature, MINMO_WEBHOOK_SECRET set *)
verify_minmo_signature(payload, signature) ==
  LET stripped == strip(signature)
      sig == IF stripped # <<>> /\ Head(stripped) = "sha256="
             THEN Tail(stripped) ELSE stripped
      mac == hmac_new(MINMO_WEBHOOK_SECRET, payload)
  IN sig = <<hexdigest(mac)>> \/ sig = <<b64encode(mac)>>

(* the X-Minmo-Signature headers sent with body p: none, one made with
   another key, a valid one with the prefix *)
MinmoSignatures(p) ==
  {NoSignature,
   <<hexdigest(hmac_new(WEBHOOK_SECRET, MinmoBody(p)))>>,
   <<"sha256=", hexdigest(hmac_new(MINMO_WEBHOOK_SECRET, MinmoBody(p)))>>}

(* swap_id = payload.get('id') or payload.get('swap_id') *)
SwapIdOf(p) == IF p.id # None THEN p.id ELSE p.swap_id

(* .eq('provider', 'minmo').eq('payload->>id', str(swap_id)): the rows whose
   payload carries the key id with this value *)
ExistingEvents(sid) ==
  {i \in DOMAIN webhook_events :
     /\ webhook_events[i].provider = "minmo"
     /\ webhook_events[i].payload.id = sid}

(* update_data['status'] for a swap status *)
MinmoStage(swap_status) ==
  CASE swap_status = "initiated" -> "payment_initiated"
    [] swap_status = "agent_matched" -> "agent_matched"
    [] swap_status = "payment_pending" -> "payment_pending"
    [] swap_status = "payment_confirmed" -> "payment_confirmed"
    [] swap_status = "escrow_releasing" -> "processing"
    [] swap_status = "completed" -> "completed"
    [] swap_status = "disputed" -> "disputed"
    [] swap_status = "cancelled" -> "cancelled"
    [] OTHER -> "minmo_" \o swap_status

MinmoReply(r, code, body) ==
  /\ Reply(r, "minmo", MinmoBody(r_payload[r]), code, body)
  /\ r_payload' = [r_payload EXCEPT ![r] = NoPayload]

(* the signature test and the swap id test: both answer 400 before any
   access to the store *)
MinmoBegin(r, p, sig) ==
  /\ NextSlot(r)
  /\ Arrive
  /\ verification' = [fn |-> "minmo", payload |-> MinmoBody(p), sig |-> sig,
                      result |-> verify_minmo_signature(MinmoBody(p), sig)]
  /\ IF ~verify_minmo_signature(MinmoBody(p), sig)
     THEN /\ Reply(r, "minmo", MinmoBody(p), 400, "invalid signature")
          /\ UNCHANGED r_payload
     ELSE IF SwapIdOf(p) = None
     THEN /\ Reply(r, "minmo", MinmoBody(p), 400, "no swap id in payload")
          /\ UNCHANGED r_payload
     ELSE /\ Enter(r, "minmo", "mw_select", p.contribution_id, None, None, 0)
          /\ r_payload' = [r_payload EXCEPT ![r] = p]
  /\ UNCHANGED <<dbVars, invoice, regVars, wVars, hist>>
  /\ UNCHANGED <<webhook_events, c_stage, swap_updates>>

(* the select on webhook_events *)
MinmoSelect(r) ==
  /\ r_pc[r] = "mw_select"
  /\ IF ExistingEvents(SwapIdOf(r_payload[r])) # {}
     THEN MinmoReply(r, 200, "already_processed")
     ELSE /\ Goto(r, "mw_insert")
          /\ UNCHANGED r_payload
  /\ Same
  /\ UNCHANGED <<dbVars, invoice, regVars, wVars, hist, verification>>
  /\ UNCHANGED <<webhook_events, c_stage, swap_updates>>

(* the insert into webhook_events, then the test of metadata.contribution_id *)
MinmoInsert(r) ==
  /\ r_pc[r] = "mw_insert"
  /\ webhook_events' = Append(webhook_events,
                              [provider |-> "minmo", payload |-> r_payload[r],
                               event_type |-> r_payload[r].status])
  /\ IF r_payload[r].contribution_id = None
     THEN MinmoReply(r, 200, "no contribution_id")
     ELSE /\ Goto(r, "mw_update")
          /\ UNCHANGED r_payload
  /\ Same
  /\ UNCHANGED <<dbVars, invoice, regVars, wVars, hist, verification>>
  /\ UNCHANGED <<c_stage, swap_updates>>

(* the update of the contribution's status column *)
MinmoUpdate(r) ==
  /\ r_pc[r] = "mw_update"
  /\ IF c_status[r_cid[r]] # "absent"
     THEN /\ c_stage' = [c_stage EXCEPT ![r_cid[r]] = MinmoStage(r_payload[r].status)]
          /\ swap_updates' = [swap_updates EXCEPT ![SwapIdOf(r_payload[r])] = @ + 1]
     ELSE UNCHANGED <<c_stage, swap_updates>>
  /\ MinmoReply(r, 200, "ok")
  /\ Same
  /\ UNCHANGED <<dbVars, invoice, regVars, wVars, hist, verification>>
  /\ UNCHANGED webhook_events

NextMinmo ==
  \E r \in Reqs :
    \/ /\ nreq < MaxCalls
       /\ \E p \in MinmoPayloads : \E sig \in MinmoSignatures(p) : MinmoBegin(r, p, sig)
    \/ MinmoSelect(r)
    \/ MinmoInsert(r)
    \/ MinmoUpdate(r)

SpecMinmo == InitStart /\ [][NextMinmo]_vars

(* the events recorded for a swap id *)
RecordedFor(sid) ==
  {i \in DOMAIN webhook_events : SwapIdOf(webhook_events[i].payload) = sid}

(* a notification with an invalid signature or without a swap id is
   answered 400 on arrival, and the step records no event and updates no
   contribution *)
C34_Rejections ==
  \A r \in Reqs :
    (/\ nreq' = nreq + 1 /\ r_pc[r] = "idle" /\ r_pc'[r] = "idle"
     /\ verification'.fn = "minmo"
     /\ r = Lowest(ReqOrder, {q \in Reqs : SlotFree(q)})) =>
      /\ (~verification'.result \/ \E p \in MinmoPayloads :
             SwapIdOf(p) = None /\ MinmoBody(p) = verification'.payload)
      /\ response'.code = 400
      /\ response'.body \in {"invalid signature", "no swap id in payload"}
      /\ UNCHANGED <<webhook_events, c_stage, swap_updates, dbVars>>

C34_RejectionsOnly ==
  [][/\ C34_Rejections
     /\ \A r \in Reqs :
          (r_pc[r] = "idle" /\ r_pc'[r] = "mw_select") =>
            (verification'.result /\ SwapIdOf(r_payload'[r]) # None)]_vars

(* C34: the Minmo webhook processes each swap id at most once: at most
   one event is recorded and at most one contribution update is made for a
   swap id; a notification that reaches the lookup when an event with its
   swap id is recorded is answered already_processed and goes no further;
   and a notification with an invalid signature or without a swap id is
   answered 400 without recording an event or updating a contribution. *)
C34_SwapProcessedOnce ==
  /\ [](\A sid \in SwapIds :
          Cardinality(RecordedFor(sid)) <= 1 /\ swap_updates[sid] <= 1)
  /\ [][\A r \in Reqs :
          (r_pc[r] = "mw_select" /\ r_pc'[r] # "mw_select"
             /\ RecordedFor(SwapIdOf(r_payload[r])) # {}) =>
            (r_pc'[r] = "idle" /\ response'.body = "already_processed")]_vars
  /\ C34_RejectionsOnly

====
